---- MODULE Spec2Model ----
(***************************************************************************)
(* A model of the loan calculator src/loan.c: the argv scanning loop of    *)
(* main, the if/else dispatch to the eight calculation modes, the sweep    *)
(* loops, and the two closed-form formulas calcPayment and calcPrinciple.  *)
(*                                                                         *)
(* A C double is modelled as a binary floating-point number with a Prec    *)
(* bit mantissa, round-to-nearest-even, an unbounded exponent, one zero,   *)
(* two infinities and NaN.                                                 *)
(***************************************************************************)
EXTENDS Integers, Sequences, FiniteSets, TLC

(***************************************************************************)
(* The state of main: its locals, its position, and what it has printed.   *)
(***************************************************************************)
VARIABLES
    args,                \* argv[1..n], fixed for the run
    argc,                \* main's argc, decremented by the scan
    principleAmount, monthlyPayment, yearlyInterestRate, numberPayments,
    retval,
    out,                 \* what has been printed
    calls,               \* the functions main has called, in order
    reads,               \* the argv indices read, in order
    pc                   \* "start", "scan", "done" (returned), "crashed"

vars == <<args, argc, principleAmount, monthlyPayment, yearlyInterestRate,
          numberPayments, retval, out, calls, reads, pc>>


(***************************************************************************)
(* Bounds of the model.                                                    *)
(***************************************************************************)
\* mantissa width of the modelled double (DBL_MANT_DIG is 53)
Prec == 12
\* the largest number of flags (each with or without its value) on a command line
MaxFlags == 3
\* the least positive double is 2^-ExpBound (2^-1074 for the C double)
ExpBound == 64
MinExp == -ExpBound

(***************************************************************************)
(* The double type.                                                        *)
(***************************************************************************)
\* number of bits of a natural number below 2^30
BitLen(n) == IF n = 0 THEN 0 ELSE CHOOSE b \in 1..30 : 2^(b-1) <= n /\ n < 2^b

\* number of trailing zero bits of a positive number
RECURSIVE TrailingZeros(_)
TrailingZeros(n) == IF n % 2 = 1 THEN 0 ELSE 1 + TrailingZeros(n \div 2)

Abs(i) == IF i < 0 THEN -i ELSE i

NaN == [k |-> "nan", m |-> 0, e |-> 0]
Inf(s) == [k |-> "inf", m |-> s, e |-> 0]
Zero == [k |-> "fin", m |-> 0, e |-> 0]

\* the finite value s * n * 2^e (n >= 0, s = 1 or -1) rounded to Prec bits
\* and to a multiple of 2^MinExp (gradual underflow, down to 0), ties to
\* even, in canonical form (odd mantissa)
Round(s, n, e) ==
    IF n = 0 THEN Zero
    ELSE LET b == BitLen(n)
             shp == IF b > Prec THEN b - Prec ELSE 0
             sh == IF MinExp - e > shp THEN MinExp - e ELSE shp
         IN IF sh > b THEN Zero
            ELSE LET q == n \div (2^sh)
                     r == n % (2^sh)
                     half == IF sh = 0 THEN 0 ELSE 2^(sh-1)
                     up == sh > 0 /\ (r > half \/ (r = half /\ q % 2 = 1))
                     q1 == IF up THEN q + 1 ELSE q
                 IN IF q1 = 0 THEN Zero
                    ELSE LET tz == TrailingZeros(q1)
                         IN [k |-> "fin", m |-> s * (q1 \div (2^tz)),
                             e |-> e + sh + tz]

\* the double of an integer literal
F(i) == Round(IF i < 0 THEN -1 ELSE 1, Abs(i), 0)

IsNaN(x) == x.k = "nan"
IsInf(x) == x.k = "inf"
IsFinite(x) == x.k = "fin"
Sign(x) == IF x.m < 0 THEN -1 ELSE IF x.m > 0 THEN 1 ELSE 0

FNeg(x) == IF x.k = "nan" THEN x ELSE [x EXCEPT !.m = -x.m]

\* position of the leading bit of a non-zero finite double
Top(x) == x.e + BitLen(Abs(x.m))

\* x + y
FAdd(x, y) ==
    IF IsNaN(x) \/ IsNaN(y) THEN NaN
    ELSE IF IsInf(x) /\ IsInf(y) THEN (IF x.m = y.m THEN x ELSE NaN)
    ELSE IF IsInf(x) THEN x
    ELSE IF IsInf(y) THEN y
    ELSE IF x.m = 0 THEN y
    ELSE IF y.m = 0 THEN x
    ELSE IF Top(y) < Top(x) - (Prec + 2) THEN x
    ELSE IF Top(x) < Top(y) - (Prec + 2) THEN y
    ELSE LET e == IF x.e < y.e THEN x.e ELSE y.e
             v == x.m * 2^(x.e - e) + y.m * 2^(y.e - e)
         IN Round(IF v < 0 THEN -1 ELSE 1, Abs(v), e)

FSub(x, y) == FAdd(x, FNeg(y))

\* x * y
FMul(x, y) ==
    IF IsNaN(x) \/ IsNaN(y) THEN NaN
    ELSE IF IsInf(x) \/ IsInf(y)
         THEN (IF Sign(x) = 0 \/ Sign(y) = 0 THEN NaN ELSE Inf(Sign(x) * Sign(y)))
    ELSE Round(IF Sign(x) * Sign(y) < 0 THEN -1 ELSE 1,
               Abs(x.m) * Abs(y.m), x.e + y.e)

\* x / y
FDiv(x, y) ==
    IF IsNaN(x) \/ IsNaN(y) THEN NaN
    ELSE IF IsInf(x) THEN (IF IsInf(y) THEN NaN
                           ELSE Inf(x.m * (IF y.m < 0 THEN -1 ELSE 1)))
    ELSE IF IsInf(y) THEN Zero
    ELSE IF y.m = 0 THEN (IF x.m = 0 THEN NaN ELSE Inf(Sign(x)))
    ELSE IF x.m = 0 THEN Zero
    ELSE LET sh == Prec + 2 + BitLen(Abs(y.m)) - BitLen(Abs(x.m))
             n == Abs(x.m) * 2^sh
             q == n \div Abs(y.m)
             r == n % Abs(y.m)
         IN Round(Sign(x) * Sign(y), 2 * q + (IF r = 0 THEN 0 ELSE 1),
                  x.e - y.e - sh - 1)

\* x < y, x > y, x <= y: false when either side is NaN
FLt(x, y) ==
    IF IsNaN(x) \/ IsNaN(y) THEN FALSE
    ELSE IF IsInf(x) THEN x.m < 0 /\ ~(IsInf(y) /\ y.m < 0)
    ELSE IF IsInf(y) THEN y.m > 0
    ELSE Sign(FSub(x, y)) < 0
FGt(x, y) == FLt(y, x)
FLe(x, y) == ~IsNaN(x) /\ ~IsNaN(y) /\ ~FLt(y, x)

\* b^n for a natural number n, by repeated squaring, each product rounded
RECURSIVE PowNat(_, _)
PowNat(b, n) ==
    IF n = 0 THEN F(1)
    ELSE IF n = 1 THEN b
    ELSE LET h == PowNat(b, n \div 2)
             sq == FMul(h, h)
         IN IF n % 2 = 0 THEN sq ELSE FMul(sq, b)

\* pow(x, y) of <math.h> for a zero, infinite, NaN or integer-valued y (the
\* only exponents the model passes: every term is a whole number of months)
FPow(x, y) ==
    CASE IsFinite(y) /\ y.m = 0 -> F(1)
      [] IsFinite(x) /\ x = F(1) -> F(1)
      [] IsNaN(x) \/ IsNaN(y) -> NaN
      [] IsInf(y) ->
            LET a == IF IsInf(x) THEN Inf(1) ELSE [x EXCEPT !.m = Abs(x.m)]
            IN IF a = F(1) THEN F(1)
               ELSE IF FLt(a, F(1)) = (y.m > 0) THEN Zero ELSE Inf(1)
      [] IsFinite(y) /\ y.m # 0 /\ y.e >= 0 ->
            LET p == PowNat(x, Abs(y.m) * 2^(y.e))
            IN IF y.m > 0 THEN p ELSE FDiv(F(1), p)

(***************************************************************************)
(* The two formulas.  Each returns the locals the C function computes and  *)
(* prints.                                                                 *)
(***************************************************************************)
PaymentFormula(pa, yir, np) ==
    LET monthlyInterestRate == FDiv(yir, F(1200))
        x == FPow(FAdd(F(1), monthlyInterestRate), FNeg(np))
        mp ==
            FDiv(FMul(pa, monthlyInterestRate), FSub(F(1), x))
        totalPaid == FMul(mp, np)
        interestPaid == FSub(totalPaid, pa)
    IN [monthlyInterestRate |-> monthlyInterestRate,
        x |-> x,
        monthlyPayment |-> mp,
        principleAmount |-> pa,
        totalPaid |-> totalPaid,
        interestPaid |-> interestPaid,
        interestPaidPercent |-> FMul(FDiv(interestPaid, pa), F(100)),
        breakEvenYears |-> FDiv(FDiv(pa, mp), F(12))]

PrincipleFormula(mp, np, yir) ==
    LET monthlyInterestRate == FDiv(yir, F(1200))
        x == FPow(FAdd(F(1), monthlyInterestRate), FNeg(np))
        pa ==
            FDiv(FMul(mp, FSub(F(1), x)), monthlyInterestRate)
        totalPaid == FMul(mp, np)
        interestPaid == FSub(totalPaid, pa)
    IN [monthlyInterestRate |-> monthlyInterestRate,
        x |-> x,
        monthlyPayment |-> mp,
        principleAmount |-> pa,
        totalPaid |-> totalPaid,
        interestPaid |-> interestPaid,
        breakEvenYears |-> FDiv(FDiv(pa, mp), F(12))]

(***************************************************************************)
(* The command line.  argv[0] is the program name, argv[1..n] are the      *)
(* arguments (args), and argv[n+1] is the null pointer that ends the       *)
(* array.                                                                  *)
(***************************************************************************)
NULL == "(null)"
Flags == {"-h", "-i", "-p", "-t", "-m"}
ValueFlags == {"-i", "-p", "-t", "-m"}
Values == {"100", "7", "0", "-1", "nan"}
\* a value for -i that is positive and subnormal
TinyValues == {"1e-323"}

\* strtod(s, NULL) of a string: the converted value, 0 when no conversion is
\* performed (a flag string is not the start of a number)
Strtod(s) ==
    CASE s = "100" -> F(100)
      [] s = "7" -> F(7)
      [] s = "0" -> Zero
      [] s = "-1" -> F(-1)
      [] s = "nan" -> NaN
      [] s = "1e-323" -> [k |-> "fin", m |-> 1, e |-> MinExp + 1]
      [] OTHER -> Zero

\* a command line is a sequence of at most MaxFlags items with distinct flags;
\* an item is a flag alone or a flag followed by a value.  FlagSeqs are the
\* sequences of flags, ValuesFor(f) what may follow the flag f (NoValue:
\* nothing), and CmdLine(fs, vs, 1) the command line of the flags fs with
\* the values vs
NoValue == "(none)"
FlagSeqs ==
    UNION {{fs \in [1..n -> Flags] : \A i, j \in 1..n : i # j => fs[i] # fs[j]} :
           n \in 0..MaxFlags}
ValuesFor(f) ==
    IF f = "-h" THEN {NoValue}
    ELSE IF f = "-i" THEN Values \cup TinyValues \cup {NoValue}
    ELSE Values \cup {NoValue}

RECURSIVE CmdLine(_, _, _)
CmdLine(fs, vs, i) ==
    IF i > Len(fs) THEN <<>>
    ELSE (IF vs[i] = NoValue THEN <<fs[i]>> ELSE <<fs[i], vs[i]>>)
             \o CmdLine(fs, vs, i + 1)

(***************************************************************************)
(* Output.  out is the sequence of things printed: the usage text, the     *)
(* help text, the "cannot specify both" line, a "Num Payments:" group      *)
(* header, a blank line, or a row.  A row records the formula that printed *)
(* it and the arguments it was called with; the numbers on the row are     *)
(* PaymentFormula or PrincipleFormula of those arguments.  In the          *)
(* operators below pa, mp, yir and np stand for the C parameters           *)
(* principleAmount, monthlyPayment, yearlyInterestRate and numberPayments. *)
(***************************************************************************)
SHOW_DEFAULT == 0
SHOW_PERIOD == 2
SHOW_RATE == 4
EXIT_SUCCESS == 0
EXIT_FAILURE == 1

UsageText == [ev |-> "usage"]
HelpText == [ev |-> "help"]
BothText == [ev |-> "both"]
BlankLine == [ev |-> "blank"]
GroupHeader(np) == [ev |-> "header", term |-> np]

usage == <<UsageText>>
help == <<HelpText>>

calcPayment(pa, yir, np, options) ==
    <<[ev |-> "row", fn |-> "calcPayment", amount |-> pa,
       rate |-> yir, term |-> np,
       options |-> options]>>

calcPrinciple(mp, np, yir, options) ==
    <<[ev |-> "row", fn |-> "calcPrinciple", amount |-> mp,
       rate |-> yir, term |-> np,
       options |-> options]>>

\* the rows of a sequence of output
Rows(o) == SelectSeq(o, LAMBDA x : x.ev = "row")

(***************************************************************************)
(* The sweep loops.  Each while loop's variable does not depend on the     *)
(* function's arguments: XxxLoop(v) is the sequence of values the loop     *)
(* variable takes from v on, and the function prints one row (or one       *)
(* group) per value.                                                       *)
(***************************************************************************)
RECURSIVE calcPaymentAndPeriodLoop(_)
calcPaymentAndPeriodLoop(np) ==
    IF FLe(np, F(360))
    THEN <<np>> \o calcPaymentAndPeriodLoop(FAdd(np, F(12)))
    ELSE <<>>

calcPaymentAndPeriodTerms == calcPaymentAndPeriodLoop(F(12))

calcPaymentAndPeriod(pa, yir) ==
    [i \in 1..Len(calcPaymentAndPeriodTerms) |->
        calcPayment(pa, yir,
                    calcPaymentAndPeriodTerms[i], SHOW_PERIOD)[1]]

RECURSIVE calcPaymentAndInterestLoop(_)
calcPaymentAndInterestLoop(interestRate) ==
    IF FLt(interestRate, F(26))
    THEN <<interestRate>> \o calcPaymentAndInterestLoop(FAdd(interestRate, F(1)))
    ELSE <<>>

calcPaymentAndInterestRates == calcPaymentAndInterestLoop(F(1))

calcPaymentAndInterest(pa, np) ==
    [i \in 1..Len(calcPaymentAndInterestRates) |->
        calcPayment(pa, calcPaymentAndInterestRates[i],
                    np, SHOW_RATE)[1]]

RECURSIVE calcPaymentPeriodAndInterestLoop(_)
calcPaymentPeriodAndInterestLoop(np) ==
    IF FLe(np, F(360))
    THEN <<np>>
         \o calcPaymentPeriodAndInterestLoop(FAdd(np, F(12)))
    ELSE <<>>

calcPaymentPeriodAndInterestTerms == calcPaymentPeriodAndInterestLoop(F(12))

RECURSIVE calcPaymentPeriodAndInterestFrom(_, _)
calcPaymentPeriodAndInterestFrom(pa, i) ==
    IF i > Len(calcPaymentPeriodAndInterestTerms) THEN <<>>
    ELSE <<GroupHeader(calcPaymentPeriodAndInterestTerms[i])>>
         \o calcPaymentAndInterest(pa,
                                   calcPaymentPeriodAndInterestTerms[i])
         \o <<BlankLine>>
         \o calcPaymentPeriodAndInterestFrom(pa, i + 1)

calcPaymentPeriodAndInterest(pa) ==
    calcPaymentPeriodAndInterestFrom(pa, 1)

\* mutant: "< 26.0", as in calcPaymentAndInterest
RECURSIVE calcPrincipleAndInterestLoopTo25(_)
calcPrincipleAndInterestLoopTo25(interestRate) ==
    IF FLt(interestRate, F(26))
    THEN <<interestRate>> \o calcPrincipleAndInterestLoopTo25(FAdd(interestRate, F(1)))
    ELSE <<>>

RECURSIVE calcPrincipleAndInterestLoop(_)
calcPrincipleAndInterestLoop(interestRate) ==
    IF FLt(interestRate, F(25))
    THEN <<interestRate>> \o calcPrincipleAndInterestLoop(FAdd(interestRate, F(1)))
    ELSE <<>>

calcPrincipleAndInterestRates == calcPrincipleAndInterestLoop(F(1))

calcPrincipleAndInterest(mp, np) ==
    [i \in 1..Len(calcPrincipleAndInterestRates) |->
        calcPrinciple(mp, np,
                      calcPrincipleAndInterestRates[i], SHOW_RATE)[1]]

\* mutant: "< 360" for "<= 360"
RECURSIVE calcPrincipleAndPeriodLoopExclusive(_)
calcPrincipleAndPeriodLoopExclusive(np) ==
    IF FLt(np, F(360))
    THEN <<np>> \o calcPrincipleAndPeriodLoopExclusive(FAdd(np, F(12)))
    ELSE <<>>

RECURSIVE calcPrincipleAndPeriodLoop(_)
calcPrincipleAndPeriodLoop(np) ==
    IF FLe(np, F(360))
    THEN <<np>>
         \o calcPrincipleAndPeriodLoop(FAdd(np, F(12)))
    ELSE <<>>

calcPrincipleAndPeriodTerms == calcPrincipleAndPeriodLoop(F(12))

calcPrincipleAndPeriod(mp, yir) ==
    [i \in 1..Len(calcPrincipleAndPeriodTerms) |->
        calcPrinciple(mp, calcPrincipleAndPeriodTerms[i],
                      yir, SHOW_PERIOD)[1]]

RECURSIVE calcPrinciplePeriodAndInterestLoop(_)
calcPrinciplePeriodAndInterestLoop(np) ==
    IF FLe(np, F(360))
    THEN <<np>>
         \o calcPrinciplePeriodAndInterestLoop(FAdd(np, F(12)))
    ELSE <<>>

calcPrinciplePeriodAndInterestTerms == calcPrinciplePeriodAndInterestLoop(F(12))

RECURSIVE calcPrinciplePeriodAndInterestFrom(_, _)
calcPrinciplePeriodAndInterestFrom(mp, i) ==
    IF i > Len(calcPrinciplePeriodAndInterestTerms) THEN <<>>
    ELSE <<GroupHeader(calcPrinciplePeriodAndInterestTerms[i])>>
         \o calcPrincipleAndInterest(mp,
                                     calcPrinciplePeriodAndInterestTerms[i])
         \o <<BlankLine>>
         \o calcPrinciplePeriodAndInterestFrom(mp, i + 1)

calcPrinciplePeriodAndInterest(mp) ==
    calcPrinciplePeriodAndInterestFrom(mp, 1)

(***************************************************************************)
(* main.                                                                   *)
(***************************************************************************)
Unset == F(-999)

ArgvOf(line, i) ==
    IF i = 0 THEN "loan"
    ELSE IF i <= Len(line) THEN line[i]
    ELSE IF i = Len(line) + 1 THEN NULL
    ELSE "(past the array)"

Argv(i) == ArgvOf(args, i)

Init ==
    /\ \E fs \in FlagSeqs :
          \E vs \in [1..Len(fs) -> Values \cup TinyValues \cup {NoValue}] :
              /\ \A i \in 1..Len(fs) : vs[i] \in ValuesFor(fs[i])
              /\ args = CmdLine(fs, vs, 1)
    /\ argc = Len(args) + 1
    /\ principleAmount = Unset
    /\ monthlyPayment = Unset
    /\ yearlyInterestRate = Unset
    /\ numberPayments = Unset
    /\ retval = EXIT_FAILURE
    /\ out = <<>>
    /\ calls = <<>>
    /\ reads = <<>>
    /\ pc = "start"

\* if(0 == --argc) { usage(); return retval; }
Start ==
    /\ pc = "start"
    /\ argc' = argc - 1
    /\ IF argc - 1 = 0
       THEN /\ out' = out \o usage
            /\ calls' = Append(calls, "usage")
            /\ pc' = "done"
       ELSE /\ UNCHANGED <<out, calls>>
            /\ pc' = "scan"
    /\ UNCHANGED <<args, principleAmount, monthlyPayment, yearlyInterestRate,
                   numberPayments, retval, reads>>

\* strtod(s, NULL) as main calls it.  With s the null pointer that ends argv
\* the call is undefined behaviour: strtod reads through the pointer, and the
\* process is killed by the invalid read (SIGSEGV) before anything is stored
Crash == [k |-> "crash", m |-> 0, e |-> 0]
StrtodOutcomes(s) ==
    IF s = NULL THEN {Crash}
    ELSE {Strtod(s)}

\* mutant: the value is read from the slot before the flag
ValueIndexBefore(i) == i - 1

\* the slot a flag's value is read from: argv[argc + 1]
ValueIndex(i) == i + 1

\* the if/else-if chain of one iteration of the scan: the locals after it,
\* given the argument a = argv[argc] and v = strtod(argv[argc + 1], NULL);
\* f holds the four locals
ScanIter(f, a, v) ==
    IF a = "-h" THEN f
    ELSE IF a = "-i" THEN [f EXCEPT !.yearlyInterestRate = v]
    ELSE IF a = "-p" THEN [f EXCEPT !.principleAmount = v]
    ELSE IF a = "-t" THEN [f EXCEPT !.numberPayments = v]
    ELSE IF a = "-m" THEN [f EXCEPT !.monthlyPayment = v]
    ELSE f

Locals ==
    [yearlyInterestRate |-> yearlyInterestRate,
     principleAmount |-> principleAmount,
     numberPayments |-> numberPayments,
     monthlyPayment |-> monthlyPayment]

\* one iteration of while(argc) { ...; --argc; }
ScanStep ==
    /\ pc = "scan"
    /\ argc # 0
    /\ LET a == Argv(argc)
       IN \E v \in (IF a \in ValueFlags THEN StrtodOutcomes(Argv(ValueIndex(argc)))
                    ELSE {Zero}) :
            IF v = Crash
            THEN /\ pc' = "crashed"
                 /\ reads' = reads \o <<argc, ValueIndex(argc)>>
                 /\ UNCHANGED <<args, argc, principleAmount, monthlyPayment,
                                yearlyInterestRate, numberPayments, retval,
                                out, calls>>
            ELSE /\ out' = IF a = "-h" THEN out \o help ELSE out
                 /\ calls' = IF a = "-h" THEN Append(calls, "help") ELSE calls
                 /\ \E f \in {ScanIter(Locals, a, v)} :
                      /\ yearlyInterestRate' = f.yearlyInterestRate
                      /\ principleAmount' = f.principleAmount
                      /\ numberPayments' = f.numberPayments
                      /\ monthlyPayment' = f.monthlyPayment
                 /\ reads' = reads \o (IF a \in ValueFlags
                                      THEN <<argc, ValueIndex(argc)>>
                                      ELSE <<argc>>)
                 /\ argc' = argc - 1
                 /\ UNCHANGED <<args, retval, pc>>

\* the whole scan loop on a command line, from argc = i down to 0: the locals
\* after it, or Crash
RECURSIVE ScanFrom(_, _, _)
ScanFrom(line, i, f) ==
    IF i = 0 THEN f
    ELSE LET a == ArgvOf(line, i)
         IN IF a \in ValueFlags
            THEN LET s == ArgvOf(line, ValueIndex(i))
                 IN IF s = NULL THEN Crash
                    ELSE ScanFrom(line, i - 1, ScanIter(f, a, Strtod(s)))
            ELSE ScanFrom(line, i - 1, ScanIter(f, a, Zero))

\* the tests "> 0" and "< 0" of the if/else chain
IsPositive(x) == FGt(x, Zero)
IsNegative(x) == FLt(x, Zero)

\* mutant: the two sweep branches exchanged
SolvePrincipleSwapped(np, yir) ==
    IF IsPositive(np) /\ IsPositive(yir) THEN "calcPrinciple"
    ELSE IF IsPositive(yir) THEN "calcPrincipleAndInterest"
    ELSE IF IsPositive(np) THEN "calcPrincipleAndPeriod"
    ELSE "calcPrinciplePeriodAndInterest"

\* mutant: the first test is "numberPayments > 0" alone
SolvePrincipleTestsTermOnly(np, yir) ==
    IF IsPositive(np) THEN "calcPrinciple"
    ELSE IF IsPositive(yir) THEN "calcPrincipleAndPeriod"
    ELSE "calcPrinciplePeriodAndInterest"

\* the if/else chain inside "else if(monthlyPayment > 0)": the function called
SolvePrinciple(np, yir) ==
    IF IsPositive(np) /\ IsPositive(yir) THEN "calcPrinciple"
    ELSE IF IsPositive(yir) THEN "calcPrincipleAndPeriod"
    ELSE IF IsPositive(np) THEN "calcPrincipleAndInterest"
    ELSE "calcPrinciplePeriodAndInterest"

\* mutant: the rate is tested with ">= 0", so a rate of 0 reaches the formula
SolvePaymentAcceptsZeroRate(np, yir) ==
    IF IsPositive(np) /\ ~IsNegative(yir) /\ ~IsNaN(yir) THEN "calcPayment"
    ELSE IF ~IsNegative(yir) /\ ~IsNaN(yir) THEN "calcPaymentAndPeriod"
    ELSE IF IsPositive(np) THEN "calcPaymentAndInterest"
    ELSE "calcPaymentPeriodAndInterest"

\* the if/else chain inside "else if(principleAmount > 0)": the function called
SolvePayment(np, yir) ==
    IF IsPositive(np) /\ IsPositive(yir) THEN "calcPayment"
    ELSE IF IsPositive(yir) THEN "calcPaymentAndPeriod"
    ELSE IF IsPositive(np) THEN "calcPaymentAndInterest"
    ELSE "calcPaymentPeriodAndInterest"

\* retval = EXIT_SUCCESS; and the call
SolvePrincipleBranch(np, yir) ==
    [call |-> SolvePrinciple(np, yir), both |-> FALSE, retval |-> EXIT_SUCCESS]

\* mutant: the -p branch forgets retval = EXIT_SUCCESS
SolvePaymentBranchKeepsFailure(np, yir) ==
    [call |-> SolvePayment(np, yir), both |-> FALSE, retval |-> EXIT_FAILURE]

SolvePaymentBranch(np, yir) ==
    [call |-> SolvePayment(np, yir), both |-> FALSE, retval |-> EXIT_SUCCESS]

\* mutant: the last test, "else if(principleAmount > 0)", is a plain "else"
ChainSolvesOtherwise(pa, mp, yir, np, rv) ==
    IF IsNegative(pa) /\ IsNegative(mp)
    THEN [call |-> "usage", both |-> FALSE, retval |-> rv]
    ELSE IF IsPositive(pa) /\ IsPositive(mp)
    THEN [call |-> "usage", both |-> TRUE, retval |-> rv]
    ELSE IF IsPositive(mp) THEN SolvePrincipleBranch(np, yir)
    ELSE SolvePaymentBranch(np, yir)

\* the if/else chain after the scan: the function it calls, whether it prints
\* the "cannot specify both" line, and the value of retval after it
Chain(pa, mp, yir, np, rv) ==
    IF IsNegative(pa) /\ IsNegative(mp)
    THEN [call |-> "usage", both |-> FALSE, retval |-> rv]
    ELSE IF IsPositive(pa) /\ IsPositive(mp)
    THEN [call |-> "usage", both |-> TRUE, retval |-> rv]
    ELSE IF IsPositive(mp) THEN SolvePrincipleBranch(np, yir)
    ELSE IF IsPositive(pa) THEN SolvePaymentBranch(np, yir)
    ELSE [call |-> "help", both |-> FALSE, retval |-> rv]

\* the call statements of main, with their arguments: what the call prints
Call(fn, pa, mp, yir, np) ==
    CASE fn = "usage" -> usage
      [] fn = "help" -> help
      [] fn = "calcPrinciple" -> calcPrinciple(mp, np, yir, SHOW_DEFAULT)
      [] fn = "calcPrincipleAndPeriod" -> calcPrincipleAndPeriod(mp, yir)
      [] fn = "calcPrincipleAndInterest" -> calcPrincipleAndInterest(mp, np)
      [] fn = "calcPrinciplePeriodAndInterest" -> calcPrinciplePeriodAndInterest(mp)
      [] fn = "calcPayment" -> calcPayment(pa, yir, np, SHOW_DEFAULT)
      [] fn = "calcPaymentAndPeriod" -> calcPaymentAndPeriod(pa, yir)
      [] fn = "calcPaymentAndInterest" -> calcPaymentAndInterest(pa, np)
      [] fn = "calcPaymentPeriodAndInterest" -> calcPaymentPeriodAndInterest(pa)

\* the scan loop has ended: the if/else chain, then return retval
Dispatch ==
    /\ pc = "scan"
    /\ argc = 0
    /\ \E c \in {Chain(principleAmount, monthlyPayment, yearlyInterestRate,
                       numberPayments, retval)} :
          /\ out' = out \o Call(c.call, principleAmount, monthlyPayment,
                                yearlyInterestRate, numberPayments)
                        \o (IF c.both THEN <<BothText>> ELSE <<>>)
          /\ calls' = Append(calls, c.call)
          /\ retval' = c.retval
    /\ pc' = "done"
    /\ UNCHANGED <<args, argc, principleAmount, monthlyPayment,
                   yearlyInterestRate, numberPayments, reads>>

Next == Start \/ ScanStep \/ Dispatch

Spec == Init /\ [][Next]_vars

(***************************************************************************)
(* Vocabulary of the properties.                                           *)
(***************************************************************************)
PrincipleModes == {"calcPrinciple", "calcPrincipleAndPeriod",
                   "calcPrincipleAndInterest", "calcPrinciplePeriodAndInterest"}
PaymentModes == {"calcPayment", "calcPaymentAndPeriod",
                 "calcPaymentAndInterest", "calcPaymentPeriodAndInterest"}
CalcModes == PrincipleModes \cup PaymentModes

\* the calculation modes main has executed, in order
ModeCalls == SelectSeq(calls, LAMBDA c : c \in CalcModes)

Printed(e) == \E i \in 1..Len(out) : out[i] = e
NoCalculation == ModeCalls = <<>> /\ Rows(out) = <<>>
Returned == pc = "done"
Ended == pc \in {"done", "crashed"}
Supplied(flag) == \E i \in 1..Len(args) : args[i] = flag

BothNegative == IsNegative(principleAmount) /\ IsNegative(monthlyPayment)
BothPositive == IsPositive(principleAmount) /\ IsPositive(monthlyPayment)
OnePositive ==
    (IsPositive(principleAmount) \/ IsPositive(monthlyPayment)) /\ ~BothPositive

(***************************************************************************)
(* C1: for every command line, main returns EXIT_SUCCESS if and only if    *)
(* exactly one of the eight calculation modes was executed (never more     *)
(* than one is), and when it returns EXIT_FAILURE no row has been printed. *)
(***************************************************************************)
C1_ExitCode ==
    /\ (Returned /\ retval = EXIT_SUCCESS) <=> (Len(ModeCalls) = 1)
    /\ Len(ModeCalls) <= 1
    /\ retval \in {EXIT_SUCCESS, EXIT_FAILURE}
    /\ (Returned /\ retval = EXIT_FAILURE) => Rows(out) = <<>>
    /\ ~Returned => Rows(out) = <<>>

\* a run that returned success after a mode printed rows, with help printed too
C1_Witness ==
    /\ Returned /\ retval = EXIT_SUCCESS
    /\ Len(ModeCalls) = 1 /\ Rows(out) # <<>>
    /\ Printed(HelpText)

(***************************************************************************)
(* C2: when neither -p nor -m is on the command line (or both values are   *)
(* negative), and when both are positive, the run ends having printed the  *)
(* usage text (and the "cannot specify both" line in the second case),     *)
(* having calculated nothing, with exit code failure.                      *)
(***************************************************************************)
C2_UsageErrors ==
    Ended =>
      /\ ((~Supplied("-p") /\ ~Supplied("-m")) \/ BothNegative) =>
            /\ Printed(UsageText)
            /\ NoCalculation
            /\ Returned /\ retval = EXIT_FAILURE
      /\ BothPositive =>
            /\ Printed(UsageText) /\ Printed(BothText)
            /\ NoCalculation
            /\ Returned /\ retval = EXIT_FAILURE

\* the same, of the runs whose scan completes (main returns)
C2_UsageErrorsOnReturn ==
    Returned =>
      /\ ((~Supplied("-p") /\ ~Supplied("-m")) \/ BothNegative) =>
            /\ Printed(UsageText) /\ ~Printed(BothText)
            /\ NoCalculation
            /\ retval = EXIT_FAILURE
      /\ BothPositive =>
            /\ Printed(UsageText) /\ Printed(BothText)
            /\ NoCalculation
            /\ retval = EXIT_FAILURE

(***************************************************************************)
(* C3, as claimed: whenever main returns and the input is not a usage      *)
(* error (both negative, or both positive), a mode has run and the exit    *)
(* code is success, also when a supplied principal or payment is 0: stated *)
(* of the command lines that supply a principal or payment of 0.           *)
(***************************************************************************)
ZeroSupplied ==
    \E i \in 1..(Len(args) - 1) : args[i] \in {"-p", "-m"} /\ args[i + 1] = "0"

ModeTable(direction, ratePresent, termPresent) ==
    CASE ratePresent /\ termPresent ->
            IF direction = "principle" THEN "calcPrinciple" ELSE "calcPayment"
      [] ratePresent /\ ~termPresent ->
            IF direction = "principle" THEN "calcPrincipleAndPeriod"
            ELSE "calcPaymentAndPeriod"
      [] ~ratePresent /\ termPresent ->
            IF direction = "principle" THEN "calcPrincipleAndInterest"
            ELSE "calcPaymentAndInterest"
      [] ~ratePresent /\ ~termPresent ->
            IF direction = "principle" THEN "calcPrinciplePeriodAndInterest"
            ELSE "calcPaymentPeriodAndInterest"

C4_ModeDispatch ==
    (Returned /\ OnePositive) =>
        /\ ModeCalls =
             <<ModeTable(IF IsPositive(monthlyPayment) THEN "principle" ELSE "payment",
                         IsPositive(yearlyInterestRate), IsPositive(numberPayments))>>
        /\ (IsPositive(yearlyInterestRate) /\ IsPositive(numberPayments)) =>
              Len(Rows(out)) = 1

\* payment given with rate and term: the single calculation of the principal
C4_Witness ==
    /\ Returned /\ OnePositive
    /\ IsPositive(monthlyPayment)
    /\ IsPositive(yearlyInterestRate) /\ IsPositive(numberPayments)
    /\ ModeCalls = <<"calcPrinciple">>
    /\ Len(Rows(out)) = 1

(***************************************************************************)
(* C5: a term sweep (rate positive, term not), in either direction, ends   *)
(* having printed exactly 30 rows and nothing else but help text: row i    *)
(* is for the term 12 * i, so the terms are 12, 24, ..., 360 in increasing *)
(* order, and every row has the given amount and the given rate.           *)
(***************************************************************************)
GivenAmount == IF IsPositive(monthlyPayment) THEN monthlyPayment ELSE principleAmount
GivenFormula == IF IsPositive(monthlyPayment) THEN "calcPrinciple" ELSE "calcPayment"
\* what was printed, the help text aside
Body == SelectSeq(out, LAMBDA x : x # HelpText)

C5_TermSweep ==
    (Returned /\ OnePositive
       /\ IsPositive(yearlyInterestRate) /\ ~IsPositive(numberPayments)) =>
        /\ Len(Body) = 30
        /\ \A i \in 1..Len(Body) :
              Body[i] = [ev |-> "row", fn |-> GivenFormula, amount |-> GivenAmount,
                         rate |-> yearlyInterestRate, term |-> F(12 * i),
                         options |-> SHOW_PERIOD]

\* a payment-given term sweep that has printed its last row, for 360 months
C5_Witness ==
    /\ Returned /\ IsPositive(monthlyPayment) /\ ~IsPositive(principleAmount)
    /\ IsPositive(yearlyInterestRate) /\ ~IsPositive(numberPayments)
    /\ ModeCalls = <<"calcPrincipleAndPeriod">>
    /\ Len(out) = 30 /\ out[30].term = F(360)

(***************************************************************************)
(* C6: a rate sweep (term positive, rate not) ends having printed, the     *)
(* help text aside, exactly 25 rows for the rates 1, 2, ..., 25 when the   *)
(* principal is given (solving the payment), and exactly 24 rows for the   *)
(* rates 1, 2, ..., 24 when the payment is given (solving the principal).  *)
(***************************************************************************)
C6_RateSweep ==
    (Returned /\ OnePositive
       /\ ~IsPositive(yearlyInterestRate) /\ IsPositive(numberPayments)) =>
        /\ Len(Body) = (IF IsPositive(monthlyPayment) THEN 24 ELSE 25)
        /\ \A i \in 1..Len(Body) :
              Body[i] = [ev |-> "row", fn |-> GivenFormula, amount |-> GivenAmount,
                         rate |-> F(i), term |-> numberPayments,
                         options |-> SHOW_RATE]

\* a payment-given rate sweep that has printed its 24 rows
C6_Witness ==
    /\ Returned /\ IsPositive(monthlyPayment) /\ ~IsPositive(principleAmount)
    /\ ~IsPositive(yearlyInterestRate) /\ IsPositive(numberPayments)
    /\ ModeCalls = <<"calcPrincipleAndInterest">>
    /\ Len(out) = 24 /\ out[24].rate = F(24)

(***************************************************************************)
(* C7: a nested sweep (neither rate nor term positive), in either          *)
(* direction, ends having printed 30 groups, for the terms 12, 24, ...,    *)
(* 360 in increasing order, each group being its header, one row for each  *)
(* rate 1, 2, ..., 25, and a blank line.                                   *)
(***************************************************************************)
C7_NestedSymmetric ==
    (Returned /\ OnePositive
       /\ ~IsPositive(yearlyInterestRate) /\ ~IsPositive(numberPayments)) =>
        /\ Len(Body) = 30 * 27
        /\ \A g \in 1..30 :
              /\ Body[27 * (g - 1) + 1] = GroupHeader(F(12 * g))
              /\ \A j \in 1..25 :
                    Body[27 * (g - 1) + 1 + j] =
                        [ev |-> "row", fn |-> GivenFormula, amount |-> GivenAmount,
                         rate |-> F(j), term |-> F(12 * g), options |-> SHOW_RATE]
              /\ Body[27 * g] = BlankLine

(***************************************************************************)
(* C8: when -h is on the command line, main returns having printed the     *)
(* help text, with no calculation performed and exit code failure,         *)
(* whatever the other flags.                                               *)
(***************************************************************************)
C8_HelpExits ==
    (Returned /\ Supplied("-h")) =>
        /\ Printed(HelpText)
        /\ NoCalculation
        /\ retval = EXIT_FAILURE

(***************************************************************************)
(* C9: for a command line made of flag/value pairs with distinct flags     *)
(* among -p, -m, -i, -t, the scan of every permutation of the pairs ends   *)
(* with the four locals this run's scan ended with, and the if/else chain  *)
(* then selects the call this run made and the exit code it returned.      *)
(***************************************************************************)
IsPairLine(line) ==
    /\ Len(line) % 2 = 0
    /\ \A i \in 1..Len(line) :
          IF i % 2 = 1 THEN line[i] \in ValueFlags
          ELSE line[i] \in Values \cup TinyValues
    /\ \A i, j \in 1..Len(line) :
          (i % 2 = 1 /\ j % 2 = 1 /\ i # j) => line[i] # line[j]

\* the orders of k pairs
Orders(k) == {p \in [1..k -> 1..k] : \A i, j \in 1..k : i # j => p[i] # p[j]}

\* the orders of the pairs of a command line, by their number
OrdersOf == [k \in 0..MaxFlags |-> Orders(k)]

\* the command line with its pairs in the order p
Permuted(line, p) ==
    [i \in 1..Len(line) |->
        line[2 * (p[(i + 1) \div 2] - 1) + (IF i % 2 = 1 THEN 1 ELSE 2)]]

InitialLocals ==
    [yearlyInterestRate |-> Unset, principleAmount |-> Unset,
     numberPayments |-> Unset, monthlyPayment |-> Unset]

\* what main does with a command line: the locals after the scan, the call the
\* chain selects and the exit code
Outcome(line) ==
    LET f == ScanFrom(line, Len(line), InitialLocals)
    IN IF f = Crash THEN [locals |-> f, call |-> "none", retval |-> -1]
       ELSE LET c == Chain(f.principleAmount, f.monthlyPayment,
                           f.yearlyInterestRate, f.numberPayments, EXIT_FAILURE)
            IN [locals |-> f, call |-> c.call, retval |-> c.retval]

C9_OrderIndependent ==
    (Returned /\ IsPairLine(args)) =>
        \A p \in OrdersOf[Len(args) \div 2] :
            Outcome(Permuted(args, p)) =
                [locals |-> Locals, call |-> calls[Len(calls)], retval |-> retval]

\* a run on three pairs, given in another order than -p, -i, -t, that solved
\* the payment
C9_Witness ==
    /\ Returned /\ IsPairLine(args) /\ Len(args) = 6
    /\ args[1] = "-t" /\ args[3] = "-i" /\ args[5] = "-p"
    /\ ModeCalls = <<"calcPayment">> /\ retval = EXIT_SUCCESS

(***************************************************************************)
(* The two formulas on their own: calcPayment on a principal, a rate and a *)
(* term, then calcPrinciple on the payment it computed with the same term  *)
(* and rate.  Here out holds the numbers each call computed, and           *)
(* monthlyPayment the payment passed from the first call to the second.    *)
(***************************************************************************)
\* a positive rate so small that 1 + rate / 1200 rounds to 1 (1e-14 is one for
\* a 53-bit mantissa)
TinyRate == [k |-> "fin", m |-> 1, e |-> -(Prec + 1)]

Principals == {F(1), F(3), F(100), F(1000), F(39000)}
Rates == {F(-1), Zero, TinyRate, F(1), FDiv(F(13), F(2)), F(7), F(25)}
Terms == {Zero, F(1), F(12), F(60), F(360)}

InitFormula ==
    /\ principleAmount \in Principals
    /\ yearlyInterestRate \in Rates
    /\ numberPayments \in Terms
    /\ monthlyPayment = Unset
    /\ args = <<>>
    /\ argc = 0
    /\ retval = EXIT_FAILURE
    /\ out = <<>>
    /\ calls = <<>>
    /\ reads = <<>>
    /\ pc = "formula"

ApplyCalcPayment ==
    /\ pc = "formula"
    /\ \E b \in {PaymentFormula(principleAmount, yearlyInterestRate, numberPayments)} :
          /\ out' = Append(out, b)
          /\ monthlyPayment' = b.monthlyPayment
    /\ calls' = Append(calls, "calcPayment")
    /\ pc' = "paid"
    /\ UNCHANGED <<args, argc, principleAmount, yearlyInterestRate,
                   numberPayments, retval, reads>>

ApplyCalcPrinciple ==
    /\ pc = "paid"
    /\ out' = Append(out, PrincipleFormula(monthlyPayment, numberPayments,
                                           yearlyInterestRate))
    /\ calls' = Append(calls, "calcPrinciple")
    /\ pc' = "back"
    /\ UNCHANGED <<args, argc, principleAmount, monthlyPayment,
                   yearlyInterestRate, numberPayments, retval, reads>>

NextFormula == ApplyCalcPayment \/ ApplyCalcPrinciple

SpecFormula == InitFormula /\ [][NextFormula]_vars

\* x is within 4 units of the last place of y: |x - y| * 2^Prec <= 4 * |y|
FAbs(x) == IF Sign(x) < 0 THEN FNeg(x) ELSE x
Close(x, y) ==
    /\ IsFinite(x) /\ IsFinite(y)
    /\ FLe(FMul(FAbs(FSub(x, y)), [k |-> "fin", m |-> 1, e |-> Prec]),
           FMul(F(4), FAbs(y)))

(***************************************************************************)
(* C10: for every principal, rate and term greater than 0, calcPrinciple   *)
(* applied to the payment calcPayment computed, with the same term and     *)
(* rate, computes a principal within floating-point tolerance (4 units of  *)
(* the last place) of the original principal.                              *)
(***************************************************************************)
C10_RoundTrip ==
    (pc = "back" /\ IsPositive(principleAmount)
       /\ IsPositive(yearlyInterestRate) /\ IsPositive(numberPayments)) =>
        Close(out[2].principleAmount, principleAmount)

\* the same, of the rates that 1 + rate / 1200 tells from 1
C10_RoundTripWhenRateResolved ==
    (pc = "back" /\ IsPositive(principleAmount)
       /\ IsPositive(yearlyInterestRate) /\ IsPositive(numberPayments)
       /\ FAdd(F(1), out[1].monthlyInterestRate) # F(1)) =>
        Close(out[2].principleAmount, principleAmount)

\* with a rate that 1 + rate / 1200 does not tell from 1, the payment is
\* infinite and the principal computed from it is not a number
C10_TinyRateDegenerates ==
    (pc = "back" /\ yearlyInterestRate = TinyRate /\ IsPositive(numberPayments)) =>
        /\ IsInf(out[1].monthlyPayment)
        /\ IsNaN(out[2].principleAmount)

(***************************************************************************)
(* The numbers a row shows: the locals its formula computed from the       *)
(* arguments of the call.                                                  *)
(***************************************************************************)
RowNumbers(row) ==
    IF row.fn = "calcPayment"
    THEN PaymentFormula(row.amount, row.rate, row.term)
    ELSE PrincipleFormula(row.amount, row.term, row.rate)

RowIsFinite(row) ==
    \E b \in {RowNumbers(row)} :
        /\ IsFinite(b.monthlyPayment) /\ IsFinite(b.principleAmount)
        /\ IsFinite(b.totalPaid) /\ IsFinite(b.interestPaid)
        /\ IsFinite(b.breakEvenYears)

\* the rates and the terms of the sweeps, and the positive values of the
\* command lines
SweptRates == {calcPaymentAndInterestRates[i] : i \in 1..Len(calcPaymentAndInterestRates)}
SweptTerms == {calcPaymentAndPeriodTerms[i] : i \in 1..Len(calcPaymentAndPeriodTerms)}
PositiveValues == {Strtod(v) : v \in {w \in Values : IsPositive(Strtod(w))}}

\* every row of a rate sweep or a nested sweep on a positive value shows
\* finite numbers only
SweptRowsAreFinite ==
    \A fn \in {"calcPayment", "calcPrinciple"}, a \in PositiveValues,
       r \in SweptRates, t \in PositiveValues \cup SweptTerms :
          RowIsFinite([ev |-> "row", fn |-> fn, amount |-> a, rate |-> r,
                       term |-> t, options |-> SHOW_RATE])

\* -i 0 is on the command line
RateIsZero ==
    /\ \E i \in 1..(Len(args) - 1) : args[i] = "-i" /\ args[i + 1] = "0"
    /\ yearlyInterestRate = Zero

MonthlyRate(yir) == FDiv(yir, F(1200))

\* the least positive double, and the rates whose division by 1200 rounds to 0
LeastPositive == [k |-> "fin", m |-> 1, e |-> MinExp]
UnderflowLimit == FMul(F(600), LeastPositive)
RateUnderflows(yir) == FLe(yir, UnderflowLimit)

\* the monthly rate of a rate is 0 exactly when the rate underflows; of the
\* rates of the sweeps, and of a set of rates
SweptRatesResolve ==
    \A r \in SweptRates : MonthlyRate(r) # Zero /\ ~RateUnderflows(r)
ZeroOnlyByUnderflow(rates) ==
    /\ SweptRatesResolve
    /\ \A r \in rates \ SweptRates : (MonthlyRate(r) = Zero) <=> RateUnderflows(r)

\* a rate or a term that is not greater than 0, taken as not supplied
AsAbsent(x) == IF IsPositive(x) THEN x ELSE Unset

\* the amounts, the rates and the terms the formulas were called with
AmountsOf(rows) == {rows[i].amount : i \in 1..Len(rows)}
RatesOf(rows) == {rows[i].rate : i \in 1..Len(rows)}
TermsOf(rows) == {rows[i].term : i \in 1..Len(rows)}

\* every call of a formula so far had a positive amount, rate and term
PositiveArguments(amounts, rates, terms) ==
    /\ \A a \in amounts : IsPositive(a)
    /\ \A r \in rates : IsPositive(r)
    /\ \A t \in terms : IsPositive(t)

\* when main has returned after a calculation: the mode is the one main runs
\* with the rate and the term that are not positive left out, a rate that is
\* not positive is swept over 1..25 and a term that is not positive over
\* 12..360
NonPositiveIsSwept(rates, terms) ==
    (Returned /\ OnePositive) =>
        /\ ModeCalls = <<Chain(principleAmount, monthlyPayment,
                               AsAbsent(yearlyInterestRate),
                               AsAbsent(numberPayments), EXIT_FAILURE).call>>
        /\ ~IsPositive(yearlyInterestRate) => rates \subseteq SweptRates
        /\ ~IsPositive(numberPayments) => terms \subseteq SweptTerms

(***************************************************************************)
(* C12, as claimed: every call of a formula, direct or from a sweep, has a *)
(* positive amount, a positive rate and a positive term, so its monthly    *)
(* rate is not 0; a rate or a term that is 0 or negative is treated like   *)
(* an absent one and swept.                                                *)
(***************************************************************************)
C12_PositiveArguments ==
    \E rows \in {Rows(out)} :
      \E amounts \in {AmountsOf(rows)}, rates \in {RatesOf(rows)},
         terms \in {TermsOf(rows)} :
        /\ PositiveArguments(amounts, rates, terms)
        /\ \A r \in rates \ SweptRates : MonthlyRate(r) # Zero
        /\ SweptRatesResolve
        /\ NonPositiveIsSwept(rates, terms)

(***************************************************************************)
(* C12, amended: every call of a formula, direct or from a sweep, has a    *)
(* positive amount, a positive rate and a positive term; a rate or a term  *)
(* that is 0 or negative is treated like an absent one and swept; and the  *)
(* monthly rate of a call is 0 exactly when its rate is at most 600 times  *)
(* the least positive double, where rate / 1200 underflows to 0.           *)
(***************************************************************************)
C12_PositiveArgumentsUnderflow ==
    \E rows \in {Rows(out)} :
      \E amounts \in {AmountsOf(rows)}, rates \in {RatesOf(rows)},
         terms \in {TermsOf(rows)} :
        /\ PositiveArguments(amounts, rates, terms)
        /\ ZeroOnlyByUnderflow(rates)
        /\ NonPositiveIsSwept(rates, terms)

\* -p, -t and the subnormal rate: calcPayment is called with three positive
\* arguments, its monthly rate is 0 and its row shows numbers that are not
\* finite
C12_Witness ==
    /\ Returned /\ ModeCalls = <<"calcPayment">>
    /\ \E i \in 1..(Len(args) - 1) : args[i] = "-i" /\ args[i + 1] = "1e-323"
    /\ IsPositive(yearlyInterestRate)
    /\ MonthlyRate(yearlyInterestRate) = Zero
    /\ Len(Rows(out)) = 1 /\ Rows(out)[1].rate = yearlyInterestRate
    /\ ~RowIsFinite(Rows(out)[1])

\* a rate of -1 with a payment and a term: the rate sweep, as without -i
C12_NegativeRateWitness ==
    /\ Returned /\ IsPositive(monthlyPayment) /\ IsPositive(numberPayments)
    /\ yearlyInterestRate = F(-1)
    /\ ModeCalls = <<"calcPrincipleAndInterest">>

(***************************************************************************)
(* The slots a scan that visits every argument reads, from argv[i] down to *)
(* argv[1]: each argument once, and after a value flag the slot after it.  *)
(***************************************************************************)
RECURSIVE VisitedSlots(_, _)
VisitedSlots(line, i) ==
    IF i = 0 THEN <<>>
    ELSE (IF line[i] \in ValueFlags THEN <<i, i + 1>> ELSE <<i>>)
             \o VisitedSlots(line, i - 1)

\* every slot read so far is one of argv[1], ..., argv[argc], the last being
\* the null pointer that ends the array
SlotsInBounds == \A j \in 1..Len(reads) : reads[j] \in 1..(Len(args) + 1)

(***************************************************************************)
(* C13: the scan loop never reads a slot outside argv[1] .. argv[argc]     *)
(* (the original argc, the slot of the terminating null pointer), also     *)
(* when the last argument is a flag without its value; and it ends having  *)
(* visited the arguments argc-1 down to 1 once each, main then returning.  *)
(***************************************************************************)
C13_ScanInBounds ==
    /\ SlotsInBounds
    /\ Ended => (Returned /\ reads = VisitedSlots(args, Len(args)))

\* the part of it that holds: the slots are in bounds, and a scan that ends
\* has visited every argument once, from the last to the first
C13_ScanInBoundsOnReturn ==
    /\ SlotsInBounds
    /\ Returned => reads = VisitedSlots(args, Len(args))

\* the scan that does not end: it stops at the last argument, a value flag,
\* having read the null pointer's slot, with the arguments before it unread
C13_CrashAtLastFlag ==
    (pc = "crashed") =>
        /\ args[Len(args)] \in ValueFlags
        /\ reads = <<Len(args), Len(args) + 1>>
        /\ out = <<>>

====
